---- MODULE Spec2Model ----
(***************************************************************************)
(* Model of AAgentWorldStarter (src/unreal/AgentWorldStarter.cpp): the     *)
(* layout path CreateAgentWorld -> CreateLeaders ->                        *)
(* CreateTeachersAndStudents -> CreateAgent.                               *)
(*                                                                         *)
(* A spawned actor is modelled by the arguments CreateAgent received for   *)
(* it: its label (AgentName), its Position, the colour property passed     *)
(* (LeaderColor / TeacherColor / StudentColor) and its Size.  Floats are   *)
(* modelled by exact integers: Spacing and AgentSize are drawn from        *)
(* multiples of 10 so that the factors 1.5f and 0.8f stay exact.  A        *)
(* student's position is kept in polar form around its teacher, because    *)
(* FMath::Cos / FMath::Sin of j*360/StudentsPerTeacher are irrational in   *)
(* general.                                                                *)
(***************************************************************************)
EXTENDS Integers, Sequences, FiniteSets, TLC

\* ---------------------------------------------------------------- bounds
MaxLeaders == 2
MaxTeachers == 11
MaxStudents == 2
MaxCalls == 2

LeaderNames == {"phi", "gpt"}
SpacingValues == {0, 200}
AgentSizeValues == {0 - 50, 0, 50}
\* the counts below 3 and the largest one; the counts between occur as the
\* unfinished runs of the largest
TeacherCounts == ((0 - 1)..2) \cup {MaxTeachers}

RECURSIVE SeqsUpTo(_, _)
SeqsUpTo(S, n) ==
    IF n = 0 THEN {<<>>}
    ELSE LET shorter == SeqsUpTo(S, n - 1)
         IN  shorter \cup {Append(s, x) : s \in shorter, x \in S}

\* ----------------------------------------------------------------- state
VARIABLES
    Leaders,            \* TArray<FString> Leaders
    TeacherCount,       \* int32 TeacherCount
    StudentsPerTeacher, \* int32 StudentsPerTeacher
    Spacing,            \* float Spacing
    AgentSize,          \* float AgentSize
    Agents,             \* TArray<AActor*> Agents
    pc,                 \* position inside CreateAgentWorld
    i,                  \* loop variable of CreateLeaders / of the teacher loop
    j,                  \* loop variable of the student loop
    AngleDivZero,       \* the Angle expression was evaluated with divisor 0
    Logged              \* Agents.Num() as logged at the end of each call

vars == <<Leaders, TeacherCount, StudentsPerTeacher, Spacing, AgentSize,
          Agents, pc, i, j, AngleDivZero, Logged>>

config == <<Leaders, TeacherCount, StudentsPerTeacher, Spacing, AgentSize>>

\* ------------------------------------------------------ string formatting
\* "%d" of FString::Printf for a non-negative int32
Digit(d) ==
    CASE d = 0 -> "0" [] d = 1 -> "1" [] d = 2 -> "2" [] d = 3 -> "3"
      [] d = 4 -> "4" [] d = 5 -> "5" [] d = 6 -> "6" [] d = 7 -> "7"
      [] d = 8 -> "8" [] OTHER -> "9"

RECURSIVE PrintfD(_)
PrintfD(n) == IF n < 10 THEN Digit(n) ELSE PrintfD(n \div 10) \o Digit(n % 10)

\* FString::Printf(TEXT("Leader_%s"), *Leaders[i]); i is the 0-based C++ index
LeaderName(idx) == "Leader_" \o Leaders[idx + 1]

\* FString::Printf(TEXT("Teacher_%d"), i + 1)
TeacherName(ti) == "Teacher_" \o PrintfD(ti + 1)

StudentNameNoIndex(ti, sj) ==
    "Teacher_" \o PrintfD(ti + 1) \o "_Student_" \o PrintfD(1)

StudentNameZeroBased(ti, sj) ==
    "Teacher_" \o PrintfD(ti) \o "_Student_" \o PrintfD(sj + 1)

\* FString::Printf(TEXT("Teacher_%d_Student_%d"), i + 1, j + 1)
StudentName(ti, sj) ==
    "Teacher_" \o PrintfD(ti + 1) \o "_Student_" \o PrintfD(sj + 1)

\* --------------------------------------------------------------- geometry
TeachersPerRow == 5
LeaderStartPos == <<0, 0, 500>>
TeacherStartPos == <<0, 0, 0 - 500>>

VecAdd(a, b) == <<a[1] + b[1], a[2] + b[2], a[3] + b[3]>>

LeaderPositionByAgentsNum(idx) ==
    VecAdd(LeaderStartPos, <<Len(Agents) * Spacing * 2, 0, 0>>)

LeaderPositionOneSpacing(idx) == VecAdd(LeaderStartPos, <<idx * Spacing, 0, 0>>)

\* LeaderStartPos + FVector(i * Spacing * 2, 0.0f, 0.0f)
LeaderPosition(idx) == VecAdd(LeaderStartPos, <<idx * Spacing * 2, 0, 0>>)

TeacherPosRowWidth4(ti) ==
    LET Row == ti \div 4
        Col == ti % 4
    IN  VecAdd(TeacherStartPos, <<Col * Spacing * 3, Row * Spacing * 4, 0>>)

\* Row = i / TeachersPerRow; Col = i % TeachersPerRow;
\* TeacherStartPos + FVector(Col * Spacing * 3, Row * Spacing * 4, 0.0f)
TeacherPos(ti) ==
    LET Row == ti \div TeachersPerRow
        Col == ti % TeachersPerRow
    IN  VecAdd(TeacherStartPos, <<Col * Spacing * 3, Row * Spacing * 4, 0>>)

\* Angle = (j * 360.0f / StudentsPerTeacher) * PI / 180.0f, kept as the
\* fraction of degrees <<numerator, denominator>>
Angle(sj) == <<sj * 360, StudentsPerTeacher>>

\* TeacherPos + FVector(Cos(Angle) * Spacing, Sin(Angle) * Spacing, 0.0f)
StudentPos(ti, sj) ==
    [Center |-> TeacherPos(ti), Radius |-> Spacing, AngleDeg |-> Angle(sj)]

\* ------------------------------------------------------------------ sizes
\* x * (tenths / 10), exact on the multiples of 10 the model draws
Scale(x, tenths) == (x * tenths) \div 10

\* AgentSize * 1.5f
LeaderSize == Scale(AgentSize, 15)

\* AgentSize
TeacherSize == AgentSize

StudentSizeShrunkBy80 == AgentSize - 80

\* AgentSize * 0.8f
StudentSize == Scale(AgentSize, 8)

\* ------------------------------------------------------------ CreateAgent
Actor(AgentName, Position, Color, Size) ==
    [Label |-> AgentName, Position |-> Position, Color |-> Color, Size |-> Size]

CreateAgentAtFront(AgentName, Position, Color, Size) ==
    Agents' = <<Actor(AgentName, Position, Color, Size)>> \o Agents

\* Agents.Add(Agent)
CreateAgent(AgentName, Position, Color, Size) ==
    Agents' = Append(Agents, Actor(AgentName, Position, Color, Size))

\* ------------------------------------------------------------ loop guards
\* i < Leaders.Num()
LeaderLoopCond == i < Len(Leaders)

\* i < TeacherCount
TeacherLoopCond == i < TeacherCount

\* j < StudentsPerTeacher
StudentLoopCond == j < StudentsPerTeacher

\* Leaders[i % Leaders.Num()] with Leaders.Num() == 0: integer modulo by
\* zero, undefined behaviour
LeaderIndexUndefined == Len(Leaders) = 0

\* ---------------------------------------------------------------- Init
Init ==
    /\ Leaders \in SeqsUpTo(LeaderNames, MaxLeaders)
    /\ TeacherCount \in TeacherCounts
    /\ StudentsPerTeacher \in (0 - 1)..MaxStudents
    /\ Spacing \in SpacingValues
    /\ AgentSize \in AgentSizeValues
    /\ Agents = <<>>
    /\ pc = "idle"
    /\ i = 0
    /\ j = 0
    /\ AngleDivZero = FALSE
    /\ Logged = <<>>

\* -------------------------------------------------------------- actions
\* CreateAgentWorld is entered; CreateLeaders starts with i = 0
CreateAgentWorld ==
    /\ pc = "idle"
    /\ Len(Logged) < MaxCalls
    /\ pc' = "CreateLeaders"
    /\ i' = 0
    /\ UNCHANGED <<config, Agents, j, AngleDivZero, Logged>>

\* one iteration of the loop of CreateLeaders
CreateLeader ==
    /\ pc = "CreateLeaders"
    /\ LeaderLoopCond
    /\ CreateAgent(LeaderName(i), LeaderPosition(i), "LeaderColor", LeaderSize)
    /\ i' = i + 1
    /\ UNCHANGED <<config, pc, j, AngleDivZero, Logged>>

\* CreateLeaders returns; CreateTeachersAndStudents starts with i = 0
CreateLeadersReturn ==
    /\ pc = "CreateLeaders"
    /\ ~LeaderLoopCond
    /\ pc' = "CreateTeachers"
    /\ i' = 0
    /\ UNCHANGED <<config, Agents, j, AngleDivZero, Logged>>

\* teacher part of one iteration of the outer loop.  With an empty Leaders
\* array the unused LeaderName lookup is undefined; this is the outcome in
\* which the build discards it and goes on.
CreateTeacher ==
    /\ pc = "CreateTeachers"
    /\ TeacherLoopCond
    /\ CreateAgent(TeacherName(i), TeacherPos(i), "TeacherColor", TeacherSize)
    /\ pc' = "CreateStudents"
    /\ j' = 0
    /\ UNCHANGED <<config, i, AngleDivZero, Logged>>

\* the other outcome of Leaders[i % Leaders.Num()] with Leaders.Num() == 0:
\* the division traps (or the range check fires) and the run ends there
LeaderLookupTrap ==
    /\ pc = "CreateTeachers"
    /\ TeacherLoopCond
    /\ LeaderIndexUndefined
    /\ pc' = "crashed"
    /\ UNCHANGED <<config, Agents, i, j, AngleDivZero, Logged>>

\* one iteration of the student loop
CreateStudent ==
    /\ pc = "CreateStudents"
    /\ StudentLoopCond
    /\ AngleDivZero' = (AngleDivZero \/ Angle(j)[2] = 0)
    /\ CreateAgent(StudentName(i, j), StudentPos(i, j), "StudentColor", StudentSize)
    /\ j' = j + 1
    /\ UNCHANGED <<config, pc, i, Logged>>

\* the student loop ends; the outer loop goes to its next iteration
CreateStudentsDone ==
    /\ pc = "CreateStudents"
    /\ ~StudentLoopCond
    /\ pc' = "CreateTeachers"
    /\ i' = i + 1
    /\ UNCHANGED <<config, Agents, j, AngleDivZero, Logged>>

\* CreateTeachersAndStudents returns; CreateAgentWorld logs Agents.Num()
CreateAgentWorldReturn ==
    /\ pc = "CreateTeachers"
    /\ ~TeacherLoopCond
    /\ Logged' = Append(Logged, Len(Agents))
    /\ pc' = "idle"
    /\ UNCHANGED <<config, Agents, i, j, AngleDivZero>>

Next ==
    \/ CreateAgentWorld
    \/ CreateLeader
    \/ CreateLeadersReturn
    \/ CreateTeacher
    \/ LeaderLookupTrap
    \/ CreateStudent
    \/ CreateStudentsDone
    \/ CreateAgentWorldReturn

Spec == Init /\ [][Next]_vars

\* ------------------------------------------------------------ vocabulary
Max0(n) == IF n > 0 THEN n ELSE 0

\* index in Agents before the first record of the current (or last) call
RunStart ==
    IF pc = "idle"
    THEN IF Len(Logged) <= 1 THEN 0 ELSE Logged[Len(Logged) - 1]
    ELSE IF Logged = <<>> THEN 0 ELSE Logged[Len(Logged)]

\* the records appended by the current (or last) call of CreateAgentWorld
ThisRun == SubSeq(Agents, RunStart + 1, Len(Agents))

Count(color) == Cardinality({k \in DOMAIN ThisRun : ThisRun[k].Color = color})

\* a call of CreateAgentWorld has ended, by returning or by the trap
RunEnded == pc = "crashed" \/ (pc = "idle" /\ Logged /= <<>>)

RunReturned == pc = "idle" /\ Logged /= <<>>

LeaderNamesDistinct ==
    \A a, b \in DOMAIN Leaders : a /= b => Leaders[a] /= Leaders[b]

IdsDistinct ==
    \A a, b \in DOMAIN ThisRun : a /= b => ThisRun[a].Label /= ThisRun[b].Label

C4_SecondCallSameList ==
    (pc = "idle" /\ Len(Logged) >= 2) => Agents = SubSeq(Agents, 1, Logged[1])

\* C4 as amended: a later call on the same instance appends, in the same
\* order, records equal to those of the first call, behind the records that
\* are already there; after n returned calls Agents is the first call's
\* list repeated n times.
C4_SecondCallRepeats ==
    Logged /= <<>> =>
        /\ \A k \in DOMAIN Agents : k > Logged[1] => Agents[k] = Agents[k - Logged[1]]
        /\ \A n \in DOMAIN Logged : Logged[n] = n * Logged[1]
        /\ pc = "idle" => Len(Agents) = Len(Logged) * Logged[1]

C4_Witness ==
    /\ pc = "idle"
    /\ Len(Logged) = 2
    /\ Len(Leaders) >= 2
    /\ Spacing /= 0
    /\ Logged[1] >= 5
    /\ Len(Agents) = 2 * Logged[1]

\* -------------------------------------------------------------------- C5
\* the teacher records of the run whose label is the parent part of the
\* student label at index k
ParentsOf(k) ==
    {t \in DOMAIN ThisRun :
        /\ ThisRun[t].Color = "TeacherColor"
        /\ \E n \in 1..StudentsPerTeacher :
              ThisRun[k].Label = ThisRun[t].Label \o "_Student_" \o PrintfD(n)}

\* the teacher record created last before index k
CreatorOf(k) ==
    {t \in 1..(k - 1) :
        /\ ThisRun[t].Color = "TeacherColor"
        /\ \A u \in (t + 1)..(k - 1) : ThisRun[u].Color /= "TeacherColor"}

\* C5: the teacher part of every student label is the label of exactly one
\* teacher record of the same run, the teacher whose iteration created the
\* student.
C5_StudentParent ==
    \A k \in DOMAIN ThisRun :
        ThisRun[k].Color = "StudentColor" =>
            /\ Cardinality(ParentsOf(k)) = 1
            /\ ParentsOf(k) = CreatorOf(k)

C5_Witness ==
    /\ RunReturned
    /\ Count("TeacherColor") >= 10
    /\ Count("StudentColor") >= 20

\* -------------------------------------------------------------------- C6
\* the record the documented order puts at index k of a run
ExpectedAt(k) ==
    IF k <= Len(Leaders)
    THEN [Color |-> "LeaderColor", Label |-> "Leader_" \o Leaders[k]]
    ELSE LET m  == k - Len(Leaders) - 1
             w  == Max0(StudentsPerTeacher) + 1
             ti == m \div w
             sj == m % w
         IN  IF sj = 0
             THEN [Color |-> "TeacherColor", Label |-> "Teacher_" \o PrintfD(ti + 1)]
             ELSE [Color |-> "StudentColor",
                   Label |-> "Teacher_" \o PrintfD(ti + 1)
                             \o "_Student_" \o PrintfD(sj)]

\* C6: leaders first in Leaders order, then teacher-major: every teacher
\* followed at once by its students in index order; no teacher or student
\* before a leader, no student before its teacher.
C6_Order ==
    /\ \A k \in DOMAIN ThisRun :
          /\ ThisRun[k].Color = ExpectedAt(k).Color
          /\ ThisRun[k].Label = ExpectedAt(k).Label
    /\ \A a, b \in DOMAIN ThisRun :
          (a < b /\ ThisRun[b].Color = "LeaderColor") => ThisRun[a].Color = "LeaderColor"

C6_Witness ==
    /\ RunReturned
    /\ Len(Leaders) >= 2
    /\ Count("TeacherColor") >= 2
    /\ Count("StudentColor") >= 4

\* -------------------------------------------------------------------- C7
\* C7 as stated: every record has a strictly positive size whatever
\* AgentSize holds.
C7_SizesPositive == \A k \in DOMAIN Agents : Agents[k].Size > 0

\* C7 as amended: leaders have size AgentSize * 1.5, teachers AgentSize,
\* students AgentSize * 0.8; these are strictly positive exactly when
\* AgentSize is strictly positive.
C7_SizesFollowAgentSize ==
    \A k \in DOMAIN Agents :
        /\ Agents[k].Color = "LeaderColor" => 10 * Agents[k].Size = 15 * AgentSize
        /\ Agents[k].Color = "TeacherColor" => Agents[k].Size = AgentSize
        /\ Agents[k].Color = "StudentColor" => 10 * Agents[k].Size = 8 * AgentSize
        /\ Agents[k].Size > 0 <=> AgentSize > 0

C7_Witness ==
    /\ RunReturned
    /\ AgentSize > 0
    /\ Count("LeaderColor") >= 1
    /\ Count("TeacherColor") >= 1
    /\ Count("StudentColor") >= 1

TeacherRecords == {k \in DOMAIN ThisRun : ThisRun[k].Color = "TeacherColor"}

\* C9: the teacher of index ti is placed at
\* (col * Spacing * 3, row * Spacing * 4, -500), row = ti div 5,
\* col = ti mod 5; for Spacing > 0 no two teachers of a run share a
\* position; all teachers are on one elevation, below the leaders' 500.
C9_TeacherGrid ==
    /\ \A k \in TeacherRecords : \A ti \in 0..(TeacherCount - 1) :
          ThisRun[k].Label = "Teacher_" \o PrintfD(ti + 1) =>
              ThisRun[k].Position =
                  <<(ti % 5) * Spacing * 3, (ti \div 5) * Spacing * 4, 0 - 500>>
    /\ \A k \in TeacherRecords : \E ti \in 0..(TeacherCount - 1) :
          ThisRun[k].Label = "Teacher_" \o PrintfD(ti + 1)
    /\ Spacing > 0 =>
          \A a, b \in TeacherRecords :
              a /= b => ThisRun[a].Position /= ThisRun[b].Position
    /\ \A k \in TeacherRecords :
          /\ ThisRun[k].Position[3] = 0 - 500
          /\ \A l \in DOMAIN ThisRun :
                ThisRun[l].Color = "LeaderColor" =>
                    /\ ThisRun[l].Position[3] = 500
                    /\ ThisRun[k].Position[3] < ThisRun[l].Position[3]

C9_Witness ==
    /\ RunReturned
    /\ Spacing > 0
    /\ Count("LeaderColor") >= 1
    /\ Count("TeacherColor") >= 11

\* ------------------------------------------------------------------- C10
\* C10: once the leader loop has ended, the record of index idx of the run
\* is the leader named Leaders[idx], at x = idx * 2 * Spacing, y = 0,
\* z = 500; consecutive leaders are 2 * Spacing apart along x.
C10_LeaderLine ==
    /\ \A k \in DOMAIN ThisRun :
          k <= Len(Leaders) =>
              /\ ThisRun[k].Label = "Leader_" \o Leaders[k]
              /\ ThisRun[k].Position = <<(k - 1) * 2 * Spacing, 0, 500>>
    /\ \A k \in DOMAIN ThisRun :
          (1 < k /\ k <= Len(Leaders)) =>
              ThisRun[k].Position[1] - ThisRun[k - 1].Position[1] = 2 * Spacing
    /\ (pc \in {"CreateTeachers", "CreateStudents", "crashed"} \/ RunReturned)
          => Len(ThisRun) >= Len(Leaders)

C10_Witness ==
    /\ RunReturned
    /\ Len(Leaders) >= 2
    /\ Spacing = 200
    /\ ThisRun[1].Position = <<0, 0, 500>>
    /\ ThisRun[2].Position = <<400, 0, 500>>

====
